---- MODULE Spec2Model ----
(***************************************************************************)
(* A model of the editing core of none-editor: the text Buffer             *)
(* (src/src/buffer.rs, a thin wrapper over a ropey Rope), and the          *)
(* EditorWindow with its draw routine and the main loop of `start`         *)
(* (src/src/window.rs).                                                    *)
(*                                                                         *)
(* The Rope is modelled by its content, a sequence of characters; the      *)
(* Rope's operations are modelled by what ropey documents them to do:      *)
(* indices are character indices, a line break is LF, CR, CRLF (one break) *)
(* or another Unicode line break (FF stands for VT, FF, NEL, LS and PS),   *)
(* and an out-of-range index panics.                                       *)
(***************************************************************************)
EXTENDS Integers, Sequences, FiniteSets, TLC

VARIABLES
    rope,               \* Buffer.rope: the content, a sequence of characters
    is_dirty,           \* Buffer.is_dirty
    panicked,           \* the thread has panicked (a Rust panic unwinds it)
    overflow_checks,    \* the build: TRUE panics on integer overflow, FALSE wraps
    call,               \* the last Buffer method called, its arguments and result
    index,              \* View: the caret's character index
    selection,          \* View.selection: None or Some(start..end)
    first_visible_line, \* View: the first line shown
    page_length,        \* View: lines per page
    width,              \* EditorWindow.width
    height,             \* EditorWindow.height
    font_height,        \* EditorWindow.font_height
    views,              \* EditorWindow.views: for each View, the Buffer it holds
    buffers,            \* EditorWindow.buffers: the Buffers, by their Rc
    current_view,       \* EditorWindow.current_view
    display_list,       \* the Vec<DisplayCommand> draw fills
    drawn,              \* what the last draw did, character by character
    anchor,             \* View: where the selection started, or NoAnchor
    pc,                 \* start: "poll" inside 'mainloop, "done" after it
    redraw,             \* start: the local `redraw`
    pending,            \* the events the event pump holds, oldest first
    obs                 \* what the main loop has done so far

bufVars == <<rope, is_dirty>>
viewVars == <<index, selection, first_visible_line, page_length, anchor>>
loopVars == <<pc, redraw, pending, obs>>
winVars == <<width, height, font_height, views, buffers, current_view>>
drawVars == <<display_list, drawn>>

----------------------------------------------------------------------------
(* Bounds *)

MaxLen == 3             \* longest buffer content, in characters
UsizeBits == 16         \* width of usize in the model

UsizeModulus == 2 ^ UsizeBits

----------------------------------------------------------------------------
(* Characters *)

LF == "\n"
CR == "\r"
FF == "\f"
TAB == "\t"

\* The characters buffers are built from.
BufChars == {"a", LF, CR, FF}

\* What ropey counts as a line break character.
RopeBreakChars == {LF, CR, FF}

\* All texts of at most n characters.
Texts(chars, n) == UNION {[1..k -> chars] : k \in 0..n}

\* The value of a call that panicked.
Panic == -1

min(a, b) == IF a <= b THEN a ELSE b

\* usize subtraction: panics in a build with overflow checks, wraps otherwise.
usize_sub(a, b) ==
    IF a >= b THEN a - b
    ELSE IF overflow_checks THEN Panic
    ELSE a - b + UsizeModulus

----------------------------------------------------------------------------
(* Buffer: queries (src/src/buffer.rs) *)

\* A line break ends at the character at position i (1-based) of r: a CR
\* followed by LF is the first half of one CRLF break, which ends at the LF.
line_break_ends(r, i) ==
    /\ r[i] \in RopeBreakChars
    /\ ~(r[i] = CR /\ i < Len(r) /\ r[i + 1] = LF)

len_chars(r) == Len(r)

\* As len_lines, but a line break at the very end opens no further line.
len_lines_no_trailing(r) ==
    Cardinality({i \in 1..Len(r) : line_break_ends(r, i) /\ i < Len(r)}) + 1

len_lines(r) == Cardinality({i \in 1..Len(r) : line_break_ends(r, i)}) + 1

char_to_line(r, char_idx) ==
    IF char_idx > Len(r) THEN Panic
    ELSE Cardinality({i \in 1..char_idx : line_break_ends(r, i)})

\* As line_to_char, but a line after the first starts at the last character
\* of the line break before it, not after it.
line_to_char_at_break(r, line_idx) ==
    IF line_idx > len_lines(r) THEN Panic
    ELSE IF line_idx = 0 THEN 0
    ELSE IF line_idx = len_lines(r) THEN Len(r)
    ELSE (CHOOSE i \in 1..Len(r) :
            line_break_ends(r, i) /\ char_to_line(r, i) = line_idx) - 1

line_to_char(r, line_idx) ==
    IF line_idx > len_lines(r) THEN Panic
    ELSE IF line_idx = 0 THEN 0
    ELSE IF line_idx = len_lines(r) THEN Len(r)
    ELSE CHOOSE i \in 1..Len(r) :
            line_break_ends(r, i) /\ char_to_line(r, i) = line_idx

\* Rope::line: the characters of the line, its line break included.
line(r, line_idx) ==
    SubSeq(r, line_to_char(r, line_idx) + 1, line_to_char(r, line_idx + 1))

line_len_no_eol(r, line_idx) ==
    IF line_idx >= len_lines(r) THEN Panic
    ELSE LET l == line(r, line_idx)
         IN  Cardinality({i \in 1..Len(l) : l[i] # LF /\ l[i] # CR})

line_to_last_char(r, line_idx) ==
    IF line_idx >= len_lines(r) THEN Panic
    ELSE line_to_char(r, line_idx) + line_len_no_eol(r, line_idx)

line_len(r, line_idx) ==
    IF line_idx >= len_lines(r) THEN Panic
    ELSE Len(line(r, line_idx))

\* As index_to_point, but the column is not taken relative to the line start.
index_to_point_absolute_col(r, char_idx) ==
    LET l == char_to_line(r, char_idx)
    IN  IF l = Panic THEN <<Panic, Panic>> ELSE <<l, char_idx>>

\* A panic is the point <<Panic, Panic>>.
index_to_point(r, char_idx) ==
    LET l == char_to_line(r, char_idx)
    IN  IF l = Panic THEN <<Panic, Panic>>
        ELSE LET c == usize_sub(char_idx, line_to_char(r, l))
             IN  IF c = Panic THEN <<Panic, Panic>> ELSE <<l, c>>

\* As point_to_index, but the line is clamped to len_lines(), not to the last
\* line.
point_to_index_line_count(r, point) ==
    LET l == min(point[1], len_lines(r))
        n == line_len_no_eol(r, l)
    IN  IF n = Panic THEN Panic
        ELSE line_to_char(r, l) + min(point[2], n)

point_to_index(r, point) ==
    LET last == usize_sub(len_lines(r), 1)
    IN  IF last = Panic THEN Panic
        ELSE LET l == min(point[1], last)
                 n == line_len_no_eol(r, l)
             IN  IF n = Panic THEN Panic
                 ELSE line_to_char(r, l) + min(point[2], n)

\* Rope::slice panics unless start <= end <= len_chars().
slice_ok(r, start, end) == start <= end /\ end <= Len(r)

slice(r, start, end) == SubSeq(r, start + 1, end)

to_string(r) == r

----------------------------------------------------------------------------
(* Buffer: mutations.  Each is the content after the call; the Rope checks *)
(* the index before it changes anything, and panics when it is out of      *)
(* range.                                                                  *)

rope_insert_ok(r, char_idx) == char_idx <= Len(r)

rope_insert(r, char_idx, text) ==
    SubSeq(r, 1, char_idx) \o text \o SubSeq(r, char_idx + 1, Len(r))

rope_remove_ok(r, start, end) == start <= end /\ end <= Len(r)

\* As rope_remove, but the character at `end` is removed too.
rope_remove_inclusive(r, start, end) ==
    SubSeq(r, 1, start) \o SubSeq(r, end + 2, Len(r))

rope_remove(r, start, end) ==
    SubSeq(r, 1, start) \o SubSeq(r, end + 1, Len(r))

\* A Buffer is [rope, is_dirty]; a mutation gives the Buffer after the call
\* and whether the call panicked.
Buffer_new == [rope |-> <<>>, is_dirty |-> FALSE]

Buffer_from_str(text) == [rope |-> text, is_dirty |-> FALSE]

\* from_file of a file that can be read and holds `text`.
Buffer_from_file(text) == [rope |-> text, is_dirty |-> FALSE]

\* As Buffer_insert_char, but the flag is set before the Rope is called.
Buffer_insert_char_flag_first(b, char_idx, ch) ==
    IF rope_insert_ok(b.rope, char_idx)
    THEN [rope |-> rope_insert(b.rope, char_idx, <<ch>>), is_dirty |-> TRUE,
          panicked |-> FALSE]
    ELSE [rope |-> b.rope, is_dirty |-> TRUE, panicked |-> TRUE]

Buffer_insert_char(b, char_idx, ch) ==
    IF rope_insert_ok(b.rope, char_idx)
    THEN [rope |-> rope_insert(b.rope, char_idx, <<ch>>), is_dirty |-> TRUE,
          panicked |-> FALSE]
    ELSE [rope |-> b.rope, is_dirty |-> b.is_dirty, panicked |-> TRUE]

Buffer_insert(b, char_idx, text) ==
    IF rope_insert_ok(b.rope, char_idx)
    THEN [rope |-> rope_insert(b.rope, char_idx, text), is_dirty |-> TRUE,
          panicked |-> FALSE]
    ELSE [rope |-> b.rope, is_dirty |-> b.is_dirty, panicked |-> TRUE]

\* As Buffer_remove, but the flag is left as it was.
Buffer_remove_flag_untouched(b, start, end) ==
    IF rope_remove_ok(b.rope, start, end)
    THEN [rope |-> rope_remove(b.rope, start, end), is_dirty |-> b.is_dirty,
          panicked |-> FALSE]
    ELSE [rope |-> b.rope, is_dirty |-> b.is_dirty, panicked |-> TRUE]

Buffer_remove(b, start, end) ==
    IF rope_remove_ok(b.rope, start, end)
    THEN [rope |-> rope_remove(b.rope, start, end), is_dirty |-> TRUE,
          panicked |-> FALSE]
    ELSE [rope |-> b.rope, is_dirty |-> b.is_dirty, panicked |-> TRUE]

----------------------------------------------------------------------------
(* View (its contract only) and EditorWindow::draw (src/src/window.rs) *)

\* Option<Range<usize>>
None == [some |-> FALSE, start |-> 0, end |-> 0]

Some(start, end) == [some |-> TRUE, start |-> start, end |-> end]

\* The font's metrics, in pixels of the model: the advance of ' ', the
\* height of a glyph and the recommended line spacing.
Font == [advance |-> 2, height |-> 3, line_spacing |-> 2]

CaretColor == <<242, 232, 255>>
SelectionColor == <<142, 132, 155>>
TextColor == <<242, 232, 255>>

\* DisplayCommand
Move(x, y) == [cmd |-> "Move", x |-> x, y |-> y]

Char(c, color) == [cmd |-> "Char", c |-> c, color |-> color]

Rect(w, h, color) == [cmd |-> "Rect", w |-> w, h |-> h, color |-> color]

CaretRect == Rect(2, Font.height, CaretColor)

SelectionRect == Rect(Font.advance + 1, Font.height, SelectionColor)

\* The arm of `match self.views[self.current_view].selection` that draws the
\* highlight of the character c at idx.
selection_arm(sel, idx, c) ==
    sel.some /\ sel.start <= idx /\ sel.end > idx /\ c # LF

\* The state of draw's loop: the display list, the pen, the running index,
\* and `steps`, one record per character the loop took: its index, the pen
\* before it, and what was pushed for it.
DrawStart(list, first_char) ==
    [list |-> list, x |-> 0, y |-> 0, idx |-> first_char, steps |-> <<>>,
     broke |-> FALSE, eof_caret |-> FALSE]

\* One iteration of `for c in b.chars().skip(first_char)`, for the character
\* at d.idx.
draw_step(d, b, v, h) ==
    LET c == b[d.idx + 1]
        sel == selection_arm(v.selection, d.idx, c)
        caret == d.idx = v.index
        glyph == c \notin {LF, TAB, CR}
        l1 == IF sel THEN d.list \o <<Move(d.x, d.y), SelectionRect>>
              ELSE d.list
        l2 == IF caret THEN l1 \o <<Move(d.x, d.y), CaretRect>> ELSE l1
        l3 == IF glyph THEN l2 \o <<Move(d.x, d.y), Char(c, TextColor)>>
              ELSE l2
        y2 == IF c = LF THEN d.y + Font.line_spacing ELSE d.y
        break == c = LF /\ y2 > h
        x2 == CASE c = LF -> IF break THEN d.x ELSE 0
                [] c = TAB -> d.x + Font.advance * 4
                [] c = CR -> d.x
                [] OTHER -> d.x + Font.advance
        step == [idx |-> d.idx, c |-> c, x |-> d.x, y |-> d.y,
                 selection |-> sel, caret |-> caret, glyph |-> glyph]
    IN  [list |-> l3, x |-> x2, y |-> y2,
         idx |-> IF break THEN d.idx ELSE d.idx + 1,
         steps |-> Append(d.steps, step),
         broke |-> break, eof_caret |-> FALSE]

RECURSIVE draw_loop(_, _, _, _)
draw_loop(d, b, v, h) ==
    IF d.broke \/ d.idx >= Len(b) THEN d
    ELSE draw_loop(draw_step(d, b, v, h), b, v, h)

\* `// cursor at eof position`: the statement after the loop.
draw_eof_caret(d, v) ==
    IF d.idx = v.index
    THEN [d EXCEPT !.list = d.list \o <<Move(d.x, d.y), CaretRect>>,
                   !.eof_caret = TRUE]
    ELSE d

\* EditorWindow::draw, on the Buffer content b, the active View v and the
\* window height h, appending to `list`.
draw(list, b, v, h) ==
    LET first_char == line_to_char(b, v.first_visible_line)
    IN  draw_eof_caret(draw_loop(DrawStart(list, first_char), b, v, h), v)

NotDrawn ==
    [x |-> 0, y |-> 0, idx |-> 0, steps |-> <<>>, broke |-> FALSE,
     eof_caret |-> FALSE, done |-> FALSE]

view == [index |-> index, selection |-> selection,
         first_visible_line |-> first_visible_line]

\* win.draw(&mut display_list, ..): the list is filled, nothing else changes.
Draw(list) ==
    LET d == draw(list, rope, view, height)
    IN  /\ display_list' = d.list
        /\ drawn' = [x |-> d.x, y |-> d.y, idx |-> d.idx, steps |-> d.steps,
                     broke |-> d.broke, eof_caret |-> d.eof_caret,
                     done |-> TRUE]

----------------------------------------------------------------------------
(* The View's operations the window calls (the View's contract), the       *)
(* EditorWindow's own methods, and the main loop of `start`.               *)

NoAnchor == -1

\* The window and what it owns: the Buffer, the active View, the size; and
\* in `calls` the operations called on the active View since the record was
\* taken, in order.
world ==
    [rope |-> rope, is_dirty |-> is_dirty, index |-> index,
     selection |-> selection, first_visible_line |-> first_visible_line,
     page_length |-> page_length, anchor |-> anchor, width |-> width,
     height |-> height, font_height |-> font_height, views |-> views,
     buffers |-> buffers, current_view |-> current_view,
     panicked |-> panicked, calls |-> <<>>]

View_new ==
    [index |-> 0, selection |-> None, first_visible_line |-> 0,
     page_length |-> 0, anchor |-> NoAnchor]

\* A call of a View operation: its name and its argument, a number (n) or a
\* character (ch).
ViewCall(op, n, ch) == [op |-> op, n |-> n, ch |-> ch]

View_set_page_length(w, n) ==
    [w EXCEPT !.page_length = n,
              !.calls = Append(@, ViewCall("set_page_length", n, ""))]

\* View::insert_char: the character goes in at the caret, which moves past it.
View_insert_char(w, ch) ==
    LET b == Buffer_insert_char([rope |-> w.rope, is_dirty |-> w.is_dirty],
                                w.index, ch)
    IN  IF w.panicked THEN w
        ELSE [w EXCEPT !.rope = b.rope, !.is_dirty = b.is_dirty,
                       !.panicked = b.panicked,
                       !.index = IF b.panicked THEN w.index ELSE w.index + 1,
                       !.selection = None,
                       !.calls = Append(@, ViewCall("insert_char", 0, ch))]

View_start_selection(w) ==
    [w EXCEPT !.anchor = IF w.anchor = NoAnchor THEN w.index ELSE @,
              !.calls = Append(@, ViewCall("start_selection", 0, ""))]

View_end_selection(w) ==
    [w EXCEPT !.anchor = NoAnchor,
              !.calls = Append(@, ViewCall("end_selection", 0, ""))]

\* The caret moves one character; with the anchor set the selection is the
\* range between the anchor and the caret.
View_move_cursor(w, by) ==
    LET to == IF w.index + by < 0 THEN 0
              ELSE min(w.index + by, Len(w.rope))
    IN  [w EXCEPT !.index = to,
                  !.selection =
                      IF w.anchor = NoAnchor THEN None
                      ELSE Some(min(w.anchor, to),
                                IF w.anchor >= to THEN w.anchor ELSE to)]

\* commands::view::get_all(): the commands, and Command::run on the View.
view_cmd == <<"right", "left">>

run(cmdid, w) ==
    LET ran == [w EXCEPT !.calls = Append(@, ViewCall("run", cmdid, ""))]
    IN  CASE view_cmd[cmdid] = "right" -> View_move_cursor(ran, 1)
          [] view_cmd[cmdid] = "left" -> View_move_cursor(ran, -1)

\* keybinding::Mod
CTRL == "CTRL"
ALT == "ALT"
SHIFT == "SHIFT"

\* cmd_keybinding: KeyBinding (key, modifiers) -> index into view_cmd.  The
\* table is whatever the commands declare: this one also has a binding on a
\* Shift key.
cmd_keybinding ==
    [kb \in {<<"Right", {}>>, <<"Right", {SHIFT}>>, <<"Left", {}>>,
             <<"Left", {SHIFT}>>, <<"RShift", {SHIFT}>>} |->
        IF kb[1] = "Left" THEN 2 ELSE 1]

\* As normalize, but only the left modifier keys count.
normalize_left_only(keymod) ==
    (IF "LCTRLMOD" \in keymod THEN {CTRL} ELSE {})
    \cup (IF "LALTMOD" \in keymod THEN {ALT} ELSE {})
    \cup (IF "LSHIFTMOD" \in keymod THEN {SHIFT} ELSE {})

\* The modifiers of a key event as the editor's Mod set.
normalize(keymod) ==
    (IF keymod \cap {"LCTRLMOD", "RCTRLMOD"} # {} THEN {CTRL} ELSE {})
    \cup (IF keymod \cap {"LALTMOD", "RALTMOD"} # {} THEN {ALT} ELSE {})
    \cup (IF keymod \cap {"LSHIFTMOD", "RSHIFTMOD"} # {} THEN {SHIFT} ELSE {})

\* As EditorWindow_init, but the second View is the current one.
EditorWindow_init_second_view(w_, h_, fh) ==
    [views |-> <<>>, buffers |-> <<>>, width |-> w_, height |-> h_,
     font_height |-> fh, current_view |-> 1]

\* EditorWindow::init
EditorWindow_init(w_, h_, fh) ==
    [views |-> <<>>, buffers |-> <<>>, width |-> w_, height |-> h_,
     font_height |-> fh, current_view |-> 0]

\* EditorWindow::add_new_view, called once by EditorWindow::new on the window
\* init made: the Buffer (empty, or the file's content) and its View, with
\* the page length set.  `b` is the Rc of the new Buffer: both vectors get a
\* clone of it.
add_new_view(w_, h_, fh, content) ==
    LET win == EditorWindow_init(w_, h_, fh)
        made == IF content = <<>> THEN Buffer_new
                ELSE Buffer_from_file(content)
        b == Len(win.buffers)
        page == usize_sub(win.height \div win.font_height, 1)
    IN  [rope |-> made.rope, is_dirty |-> made.is_dirty,
         index |-> View_new.index,
         selection |-> View_new.selection,
         first_visible_line |-> View_new.first_visible_line,
         page_length |-> IF page = Panic THEN View_new.page_length ELSE page,
         anchor |-> View_new.anchor, width |-> win.width,
         height |-> win.height, font_height |-> win.font_height,
         views |-> IF page = Panic THEN win.views
                   ELSE Append(win.views, [buffer |-> b]),
         buffers |-> Append(win.buffers, b),
         current_view |-> win.current_view, panicked |-> page = Panic]

\* EditorWindow::resize
resize(w, w_, h_) ==
    LET sized == [w EXCEPT !.width = w_, !.height = h_]
        page == usize_sub(h_ \div w.font_height, 1)
    IN  IF page = Panic THEN [sized EXCEPT !.panicked = TRUE]
        ELSE View_set_page_length(sized, page)

\* As insert_chars, but the characters of the text are taken last to first.
RECURSIVE insert_chars_reversed(_, _)
insert_chars_reversed(w, text) ==
    IF text = <<>> THEN w
    ELSE View_insert_char(insert_chars_reversed(w, Tail(text)), Head(text))

\* EditorWindow::insert_char for each character of the text, in order.
RECURSIVE insert_chars(_, _)
insert_chars(w, text) ==
    IF text = <<>> THEN w
    ELSE insert_chars(View_insert_char(w, Head(text)), Tail(text))

\* sdl2::event::Event
KeyDown(k, keymod) ==
    [type |-> "KeyDown", key |-> k, keymod |-> keymod, text |-> <<>>,
     w |-> 0, h |-> 0]

KeyUp(k, keymod) ==
    [type |-> "KeyUp", key |-> k, keymod |-> keymod, text |-> <<>>,
     w |-> 0, h |-> 0]

TextInput(t) ==
    [type |-> "TextInput", key |-> "", keymod |-> {}, text |-> t,
     w |-> 0, h |-> 0]

SizeChanged(w_, h_) ==
    [type |-> "SizeChanged", key |-> "", keymod |-> {}, text |-> <<>>,
     w |-> w_, h |-> h_]

Quit == [type |-> "Quit", key |-> "", keymod |-> {}, text |-> <<>>,
         w |-> 0, h |-> 0]

MouseMotion ==
    [type |-> "MouseMotion", key |-> "", keymod |-> {}, text |-> <<>>,
     w |-> 0, h |-> 0]

\* As dispatch_key, but a key-down of a Shift key is left to the second
\* match alone.
dispatch_key_not_for_shift(w, e) ==
    IF /\ e.type = "KeyDown" /\ e.key \notin {"LShift", "RShift"}
       /\ <<e.key, normalize(e.keymod)>> \in DOMAIN cmd_keybinding
    THEN run(cmd_keybinding[<<e.key, normalize(e.keymod)>>], w)
    ELSE w

\* The first `match event`: a key-down runs the command bound to it, if any.
dispatch_key(w, e) ==
    IF e.type = "KeyDown" /\ <<e.key, normalize(e.keymod)>> \in DOMAIN cmd_keybinding
    THEN run(cmd_keybinding[<<e.key, normalize(e.keymod)>>], w)
    ELSE w

\* As breaks_mainloop, but only a window-close request ends the loop.
breaks_mainloop_quit_only(e) == e.type = "Quit"

\* The second `match event`: its first arm, `break 'mainloop`.
breaks_mainloop(e) ==
    (e.type = "KeyDown" /\ e.key = "Escape") \/ e.type = "Quit"

\* The second `match event`: its other arms.
handle_event(w, e) ==
    CASE e.type = "SizeChanged" -> resize(w, e.w, e.h)
      [] e.type = "KeyDown" /\ e.key \in {"LShift", "RShift"} ->
            View_start_selection(w)
      [] e.type = "KeyUp" /\ e.key \in {"LShift", "RShift"} ->
            View_end_selection(w)
      [] e.type = "TextInput" -> insert_chars(w, e.text)
      [] OTHER -> w

\* As frame_end, but `redraw` is not reset.
frame_end_no_reset(rd) == [render |-> rd, redraw |-> rd]

\* The end of the loop body: `if redraw { .. draw .. } else { sleep }`, then
\* `redraw = false`.
frame_end(rd) == [render |-> rd, redraw |-> FALSE]

\* What `obs` holds before the loop has done anything.
NoEvent == [type |-> "None", key |-> "", keymod |-> {}, text |-> <<>>,
            w |-> 0, h |-> 0]

NoFrame == [kind |-> "none", events |-> 0, first |-> FALSE]

NoObs ==
    [arrived |-> 0, handled |-> 0, renders |-> 0, frame_events |-> 0,
     first_frame |-> TRUE, last_frame |-> NoFrame, last_event |-> NoEvent,
     quit_seen |-> FALSE, last_calls |-> <<>>, inserted |-> <<>>,
     typed |-> <<>>]

NoLoop == pc = "done" /\ redraw = FALSE /\ pending = <<>> /\ obs = NoObs

----------------------------------------------------------------------------
(* The Buffer on its own: a Buffer made by new or from_str, and any         *)
(* sequence of calls of its methods, in range or not.  `call` records the   *)
(* last call: its name, whether its arguments were in range, whether it     *)
(* returned (ok) or panicked, its result, and, in `from`, what an earlier   *)
(* call handed to it.  A call that panicked also records its arguments and  *)
(* the Buffer before it.  A panic ends the run.  A query leaves the Buffer  *)
(* as it was, so the calls that may follow it are those taken from the      *)
(* state before it; only the calls that use its result are taken after it,  *)
(* and likewise within the sequence slice, remove, insert of one range.     *)

NoChain == [valid |-> FALSE, idx |-> 0, removed |-> <<>>, before |-> <<>>]

this == [rope |-> rope, is_dirty |-> is_dirty]

NoCall ==
    [op |-> "from_str", args |-> <<>>, in_range |-> TRUE, ok |-> TRUE,
     val |-> 0, pre |-> Buffer_new, from |-> NoChain]

MutationOps == {"insert_char", "insert", "remove"}

QueryOps ==
    {"slice", "index_to_point", "point_to_index", "line_to_char",
     "char_to_line", "line_to_last_char"}

\* No result of an earlier call is waiting to be used.
Idle == call.op \notin QueryOps /\ ~call.from.valid

\* Indices tried by the calls: in range and just out of range.
Indices == 0..(MaxLen + 1)

\* Texts given to insert.
InsertTexts ==
    {<<>>, <<"a">>, <<LF>>, <<CR>>, <<CR, LF>>, <<"a", LF>>, <<FF, "a">>}

Mutated(after, op, args, in_range, from) ==
    /\ rope' = after.rope
    /\ is_dirty' = after.is_dirty
    /\ panicked' = after.panicked
    /\ call' = [op |-> op, in_range |-> in_range, ok |-> ~after.panicked,
                val |-> 0, from |-> from,
                args |-> IF after.panicked THEN args ELSE <<>>,
                pre |-> IF after.panicked THEN this ELSE Buffer_new]
    /\ UNCHANGED <<overflow_checks, viewVars, winVars, drawVars, loopVars>>

Queried(op, args, in_range, ok, val, from) ==
    /\ panicked' = ~ok
    /\ call' = [op |-> op, args |-> args, in_range |-> in_range, ok |-> ok,
                val |-> val, pre |-> this, from |-> from]
    /\ UNCHANGED <<rope, is_dirty, overflow_checks, viewVars, winVars, drawVars,
                   loopVars>>

\* No window: the Buffer is used on its own.
NoWindow ==
    /\ index = 0 /\ selection = None /\ first_visible_line = 0
    /\ page_length = 0 /\ anchor = NoAnchor
    /\ width = 0 /\ height = 0 /\ font_height = Font.line_spacing
    /\ views = <<>> /\ buffers = <<>> /\ current_view = 0
    /\ display_list = <<>> /\ drawn = NotDrawn
    /\ NoLoop

\* The Buffers new, from_str and from_file make.
NewBuffers ==
    {Buffer_new}
    \cup {Buffer_from_str(text) : text \in Texts(BufChars, MaxLen)}
    \cup {Buffer_from_file(text) : text \in Texts(BufChars, MaxLen)}

BufInit ==
    /\ \E b \in NewBuffers : rope = b.rope /\ is_dirty = b.is_dirty
    /\ panicked = FALSE
    /\ overflow_checks \in BOOLEAN
    /\ call = NoCall
    /\ NoWindow

CallInsertChar ==
    \E char_idx \in Indices, ch \in BufChars :
        /\ ~panicked
        /\ Idle
        /\ Len(rope) < MaxLen \/ char_idx > Len(rope)
        /\ Mutated(Buffer_insert_char(this, char_idx, ch), "insert_char",
                   <<char_idx, <<ch>>>>, char_idx <= Len(rope), NoChain)

\* insert(idx, text), among them the text a slice returned, at the place a
\* remove of the same range then removed it from.
CallInsert ==
    \E char_idx \in Indices,
       text \in InsertTexts
                \cup {IF call.from.valid THEN call.from.removed ELSE <<>>} :
        /\ ~panicked
        /\ \/ Idle
           \/ /\ call.op = "remove" /\ call.from.valid
              /\ call.from.idx = char_idx /\ call.from.removed = text
        /\ Len(rope) + Len(text) <= MaxLen \/ char_idx > Len(rope)
        /\ Mutated(Buffer_insert(this, char_idx, text), "insert",
                   <<char_idx, text>>, char_idx <= Len(rope),
                   IF /\ call.op = "remove" /\ call.ok /\ call.from.valid
                      /\ call.from.idx = char_idx /\ call.from.removed = text
                   THEN call.from ELSE NoChain)

\* remove(start..end), also right after slice(start..end) returned.
CallRemove ==
    \E start \in Indices, end \in Indices :
        /\ ~panicked
        /\ Idle \/ (call.op = "slice" /\ call.args = <<start, end>>)
        /\ Mutated(Buffer_remove(this, start, end), "remove", <<start, end>>,
                   start <= end /\ end <= Len(rope),
                   IF call.op = "slice" /\ call.ok /\ call.args = <<start, end>>
                   THEN [valid |-> TRUE, idx |-> start, removed |-> call.val,
                         before |-> rope]
                   ELSE NoChain)

CallSlice ==
    \E start \in Indices, end \in Indices :
        /\ ~panicked
        /\ Idle
        /\ Queried("slice", <<start, end>>, start <= end /\ end <= Len(rope),
                   slice_ok(rope, start, end),
                   IF slice_ok(rope, start, end) THEN slice(rope, start, end)
                   ELSE <<>>,
                   NoChain)

CallIndexToPoint ==
    \E char_idx \in Indices :
        /\ ~panicked
        /\ Idle
        /\ LET p == index_to_point(rope, char_idx)
           IN  Queried("index_to_point", <<char_idx>>, char_idx <= Len(rope),
                       p[1] # Panic, p, NoChain)

\* point_to_index of any point, also of the point index_to_point returned.
CallPointToIndex ==
    \E l \in Indices, c \in Indices :
        /\ ~panicked
        /\ Idle \/ (call.op = "index_to_point" /\ call.val = <<l, c>>)
        /\ LET i == point_to_index(rope, <<l, c>>)
           IN  Queried("point_to_index", <<l, c>>, TRUE, i # Panic, i,
                       IF call.op = "index_to_point" /\ call.val = <<l, c>>
                       THEN [valid |-> TRUE, idx |-> call.args[1],
                             removed |-> <<>>, before |-> <<>>]
                       ELSE NoChain)

CallLineToChar ==
    \E line_idx \in Indices :
        /\ ~panicked
        /\ Idle
        /\ LET i == line_to_char(rope, line_idx)
           IN  Queried("line_to_char", <<line_idx>>,
                       line_idx <= len_lines(rope), i # Panic, i, NoChain)

\* char_to_line of any index, also of the index line_to_char returned.
CallCharToLine ==
    \E char_idx \in Indices :
        /\ ~panicked
        /\ Idle \/ (call.op = "line_to_char" /\ call.ok /\ call.val = char_idx)
        /\ LET l == char_to_line(rope, char_idx)
           IN  Queried("char_to_line", <<char_idx>>, char_idx <= Len(rope),
                       l # Panic, l,
                       IF call.op = "line_to_char" /\ call.ok
                          /\ call.val = char_idx
                       THEN [valid |-> TRUE, idx |-> call.args[1],
                             removed |-> <<>>, before |-> <<>>]
                       ELSE NoChain)

CallLineToLastChar ==
    \E line_idx \in Indices :
        /\ ~panicked
        /\ Idle
        /\ LET i == line_to_last_char(rope, line_idx)
           IN  Queried("line_to_last_char", <<line_idx>>,
                       line_idx < len_lines(rope), i # Panic, i, NoChain)

BufNext ==
    \/ CallInsertChar
    \/ CallInsert
    \/ CallRemove
    \/ CallSlice
    \/ CallIndexToPoint
    \/ CallPointToIndex
    \/ CallLineToChar
    \/ CallCharToLine
    \/ CallLineToLastChar

vars ==
    <<rope, is_dirty, panicked, overflow_checks, call, viewVars, winVars,
      drawVars, loopVars>>

BufSpec == BufInit /\ [][BufNext]_vars

----------------------------------------------------------------------------
(* draw on its own: any Buffer content, any caret, selection and first      *)
(* visible line a View can hold for it, any window height; draw is called   *)
(* on an empty display list, as the main loop calls it.                     *)

MaxDrawLen == 3         \* longest content drawn
MaxHeight == 3          \* largest window height, in pixels of the model

DrawChars == {"a", LF, CR, TAB}

Selections(n) ==
    {None} \cup UNION {{Some(s, e) : e \in s..n} : s \in 0..n}

DrawInit ==
    /\ rope \in Texts(DrawChars, MaxDrawLen)
    /\ is_dirty = FALSE
    /\ panicked = FALSE
    /\ overflow_checks = FALSE
    /\ call = NoCall
    /\ index \in 0..Len(rope)
    /\ selection \in Selections(Len(rope))
    /\ first_visible_line \in 0..(len_lines(rope) - 1)
    /\ page_length = 0
    /\ anchor = NoAnchor
    /\ width = 0
    /\ height \in 0..MaxHeight
    /\ font_height = Font.line_spacing
    /\ LET win == add_new_view(width, height, font_height, rope)
       IN  /\ views = win.views
           /\ buffers = win.buffers
           /\ current_view = win.current_view
    /\ display_list = <<>>
    /\ drawn = NotDrawn
    /\ NoLoop

\* As DrawOnce, but draw also scrolls the View back to the first line.
DrawOnce_scrolls ==
    /\ ~drawn.done
    /\ Draw(<<>>)
    /\ first_visible_line' = 0
    /\ UNCHANGED <<bufVars, panicked, overflow_checks, call, index, selection,
                   page_length, anchor, winVars, loopVars>>

DrawOnce ==
    /\ ~drawn.done
    /\ Draw(<<>>)
    /\ UNCHANGED <<bufVars, panicked, overflow_checks, call, viewVars, winVars,
                   loopVars>>

DrawNext == DrawOnce

DrawSpec == DrawInit /\ [][DrawNext]_vars

----------------------------------------------------------------------------
(* The main loop of `start`: the window is made for a size of at least one  *)
(* line and a file, the event pump receives events at any time, each        *)
(* iteration of 'mainloop takes the events the pump holds one by one and    *)
(* then draws or sleeps.                                                    *)
(* `obs` counts the events received and handled and the frames drawn, and   *)
(* remembers the last event handled and how the last frame ended; it also   *)
(* holds the View operations called for the last event (last_calls), the    *)
(* characters given to the View's insert_char so far (inserted) and the     *)
(* texts of the text-input events received so far, concatenated (typed).    *)

MaxEvents == 2          \* events the event pump receives in a run

\* The events the pump delivers.
Events ==
    {KeyDown("Escape", {}), KeyDown("LShift", {"LSHIFTMOD"}),
     KeyUp("LShift", {}), KeyDown("Right", {}), KeyDown("F1", {}),
     TextInput(<<"a">>), TextInput(<<"a", LF>>),
     SizeChanged(MaxHeight, 1), SizeChanged(MaxHeight, MaxHeight),
     Quit, MouseMotion}

\* The files given to `start`: none (<<>>) or a file of this content.
Files == {<<>>, <<"a", LF>>}

SetWorld(w) ==
    /\ rope' = w.rope
    /\ is_dirty' = w.is_dirty
    /\ index' = w.index
    /\ selection' = w.selection
    /\ first_visible_line' = w.first_visible_line
    /\ page_length' = w.page_length
    /\ anchor' = w.anchor
    /\ width' = w.width
    /\ height' = w.height
    /\ font_height' = w.font_height
    /\ views' = w.views
    /\ buffers' = w.buffers
    /\ current_view' = w.current_view
    /\ panicked' = w.panicked

LoopInit ==
    /\ overflow_checks \in BOOLEAN
    /\ call = NoCall
    /\ \E h_ \in Font.line_spacing..MaxHeight, content \in Files :
           LET w == add_new_view(MaxHeight, h_, Font.line_spacing, content)
           IN  /\ rope = w.rope /\ is_dirty = w.is_dirty
               /\ index = w.index /\ selection = w.selection
               /\ first_visible_line = w.first_visible_line
               /\ page_length = w.page_length /\ anchor = w.anchor
               /\ width = w.width /\ height = w.height
               /\ font_height = w.font_height
               /\ views = w.views /\ buffers = w.buffers
               /\ current_view = w.current_view
               /\ panicked = w.panicked
    /\ display_list = <<>>
    /\ drawn = NotDrawn
    /\ pc = "poll"
    /\ redraw = TRUE
    /\ pending = <<>>
    /\ obs = NoObs

Running == pc = "poll" /\ ~panicked

\* The backend queues one of the events.
Receive(events) ==
    \E e \in events :
        /\ Running
        /\ obs.arrived < MaxEvents
        /\ pending' = Append(pending, e)
        /\ obs' = [obs EXCEPT !.arrived = @ + 1, !.typed = @ \o e.text]
        /\ UNCHANGED <<bufVars, panicked, overflow_checks, call, viewVars,
                       winVars, drawVars, pc, redraw>>

Arrive == Receive(Events)

\* The characters of the insert_char calls among `calls`, in order.
RECURSIVE inserted_by(_)
inserted_by(calls) ==
    IF calls = <<>> THEN <<>>
    ELSE (IF Head(calls).op = "insert_char" THEN <<Head(calls).ch>> ELSE <<>>)
         \o inserted_by(Tail(calls))

\* One iteration of `for event in event_pump.poll_iter()`.
HandleEvent ==
    /\ Running
    /\ pending # <<>>
    /\ LET e == Head(pending)
           w == dispatch_key(world, e)
           after == IF breaks_mainloop(e) THEN w ELSE handle_event(w, e)
       IN  /\ pending' = Tail(pending)
           /\ redraw' = TRUE
           /\ pc' = IF breaks_mainloop(e) THEN "done" ELSE pc
           /\ SetWorld(after)
           /\ obs' = [obs EXCEPT
                        !.handled = @ + 1,
                        !.frame_events = @ + 1,
                        !.last_event = e,
                        !.quit_seen =
                            \/ e.type = "Quit"
                            \/ e.type = "KeyDown" /\ e.key = "Escape",
                        !.last_calls = after.calls,
                        !.inserted = @ \o inserted_by(after.calls)]
    /\ UNCHANGED <<overflow_checks, call, drawVars>>

EndFrame(kind) ==
    /\ pc' = pc
    /\ redraw' = frame_end(redraw).redraw
    /\ obs' = [obs EXCEPT
                 !.renders = IF kind = "render" THEN @ + 1 ELSE @,
                 !.frame_events = 0,
                 !.first_frame = FALSE,
                 !.last_frame = [kind |-> kind, events |-> obs.frame_events,
                                 first |-> obs.first_frame]]
    /\ UNCHANGED <<bufVars, panicked, overflow_checks, call, viewVars, winVars,
                   pending>>

\* The pump holds no event and `redraw` is set: the frame is drawn.
Render ==
    /\ Running
    /\ pending = <<>>
    /\ frame_end(redraw).render
    /\ Draw(<<>>)
    /\ EndFrame("render")

\* The pump holds no event and `redraw` is not set: the loop sleeps 10 ms.
Sleep ==
    /\ Running
    /\ pending = <<>>
    /\ ~frame_end(redraw).render
    /\ UNCHANGED drawVars
    /\ EndFrame("sleep")

LoopNext ==
    \/ Arrive
    \/ HandleEvent
    \/ Render
    \/ Sleep

LoopSpec == LoopInit /\ [][LoopNext]_vars

----------------------------------------------------------------------------
(* The main loop under key events: the same window and loop, with the       *)
(* event pump delivering key-downs and key-ups of bound and unbound keys    *)
(* under several modifier states.                                           *)

\* Modifier flags of a key event: the left and right Shift, Ctrl and Alt
\* keys, and Num Lock for the flags the editor ignores.
KeyMods ==
    {"LSHIFTMOD", "RSHIFTMOD", "LCTRLMOD", "RCTRLMOD", "RALTMOD", "NUMMOD"}

KeyEvents ==
    {KeyDown("Right", {}), KeyDown("Right", {"RSHIFTMOD", "NUMMOD"}),
     KeyDown("Right", {"LCTRLMOD"}), KeyDown("Left", {"LSHIFTMOD"}),
     KeyDown("RShift", {"RSHIFTMOD", "NUMMOD"}), KeyDown("RShift", {}),
     KeyDown("LShift", {"LSHIFTMOD"}), KeyUp("RShift", {}),
     KeyDown("F1", {})}

KeyArrive == Receive(KeyEvents)

KeyNext ==
    \/ KeyArrive
    \/ HandleEvent
    \/ Render
    \/ Sleep

KeySpec == LoopInit /\ [][KeyNext]_vars

----------------------------------------------------------------------------
(* Properties of the Buffer *)

Count(r, chars) == Cardinality({i \in 1..Len(r) : r[i] \in chars})

\* char_idx lies between the CR and the LF of a CRLF pair of r.
InsideCRLF(r, char_idx) ==
    /\ 0 < char_idx /\ char_idx < Len(r)
    /\ r[char_idx] = CR /\ r[char_idx + 1] = LF

CRLFPairs(r) == Cardinality({i \in 1..(Len(r) - 1) : InsideCRLF(r, i)})

RoundTripped == call.op = "point_to_index" /\ call.from.valid

\* C1 as stated: for every content and every idx in [0, len_chars()],
\* point_to_index(index_to_point(idx)) = idx.
C1_RoundTripEveryIndex ==
    RoundTripped => call.ok /\ call.val = call.from.idx

\* C1, amended: for every content and every idx in [0, len_chars()] that does
\* not lie between the CR and the LF of a CRLF pair,
\* point_to_index(index_to_point(idx)) = idx.
C1_RoundTripOutsideCRLF ==
    (RoundTripped /\ ~InsideCRLF(rope, call.from.idx))
        => call.ok /\ call.val = call.from.idx

\* The round trip of an index on a second line, after a CRLF break.
C1_Witness ==
    /\ RoundTripped
    /\ InsideCRLF(rope, 1)
    /\ call.from.idx = Len(rope) /\ Len(rope) > 2
    /\ call.val = call.from.idx

\* C2: point_to_index never fails, whatever the point and the content (the
\* empty content too); it returns line_to_char(l) + min(col,
\* line_len_no_eol(l)) for l = min(line, len_lines() - 1), which lies in
\* [0, len_chars()].
C2_PointToIndexClamps ==
    call.op = "point_to_index" =>
        LET l == min(call.args[1], len_lines(rope) - 1)
        IN  /\ call.ok /\ ~panicked
            /\ call.val = line_to_char(rope, l)
                              + min(call.args[2], line_len_no_eol(rope, l))
            /\ 0 <= call.val /\ call.val <= len_chars(rope)

\* A point past the last line and past its end, in a content of several lines.
C2_Witness ==
    /\ call.op = "point_to_index"
    /\ len_lines(rope) > 1
    /\ call.args[1] >= len_lines(rope)
    /\ call.args[2] > line_len_no_eol(rope, len_lines(rope) - 1)
    /\ call.val = len_chars(rope)

\* C6 as stated: len_lines() is the number of line-terminator characters of
\* the content plus 1, hence at least 1.
C6_LinesAreTerminatorCharsPlusOne ==
    /\ len_lines(rope) = Count(rope, RopeBreakChars) + 1
    /\ len_lines(rope) >= 1

\* C6, amended: len_lines() is the number of line breaks of the content plus
\* 1, where a CR directly followed by LF makes one break with it and every
\* other LF, CR or further Unicode line break character is one break; a
\* line break at the end gives one more, empty, line, and len_lines() >= 1.
C6_LinesAreBreaksPlusOne ==
    /\ len_lines(rope) = Count(rope, RopeBreakChars) - CRLFPairs(rope) + 1
    /\ len_lines(rope) >= 1

\* After an edit, a content that holds a CRLF pair and ends in a line break.
C6_Witness ==
    /\ call.op \in MutationOps /\ call.ok
    /\ CRLFPairs(rope) = 1
    /\ rope[Len(rope)] = LF
    /\ len_lines(rope) = 2

\* C9: slice(a..b), then remove(a..b), then insert(a, the slice) leaves the
\* content as it was before the three calls.
C9_RemoveInsertRoundTrip ==
    (call.op = "insert" /\ call.from.valid) =>
        call.ok /\ to_string(rope) = call.from.before

\* A non-empty range in the middle of the content put back.
C9_Witness ==
    /\ call.op = "insert" /\ call.from.valid /\ call.ok
    /\ Len(call.from.removed) >= 1
    /\ call.from.idx = 1
    /\ call.from.idx + Len(call.from.removed) < Len(rope)

\* C10: insert_char or insert at an index past len_chars(), or remove of a
\* range that ends past len_chars() or starts after its end, fails, and the
\* content and the dirty flag are what they were before the call.
C10_OutOfRangeFailsUnchanged ==
    (call.op \in MutationOps /\ ~call.in_range) =>
        /\ ~call.ok /\ panicked
        /\ rope = call.pre.rope
        /\ is_dirty = call.pre.is_dirty

\* An out-of-range insert_char into a non-empty Buffer that was not dirty.
C10_Witness ==
    /\ call.op = "insert_char" /\ ~call.in_range
    /\ call.args[1] = Len(rope) + 1
    /\ Len(rope) > 0 /\ ~is_dirty /\ panicked

\* C11: the dirty flag is false right after new, from_str or from_file, is
\* true after every insert_char, insert or remove that returned, and once
\* true it stays true whatever is called next; a query leaves it as it is.
C11_DirtyFlagSetOnceAndKept ==
    /\ [](call = NoCall => ~is_dirty)
    /\ [][/\ (call'.op \in MutationOps /\ call'.ok) => is_dirty'
          /\ call'.op \in QueryOps => is_dirty' = is_dirty
          /\ is_dirty => is_dirty']_vars

\* A query that returned, made on a Buffer emptied by an edit.
C11_Witness ==
    /\ call.op \in QueryOps /\ call.ok
    /\ is_dirty /\ rope = <<>>

\* The offset of the first line break character of the line, or len_chars()
\* for a line that has none (the last one).
FirstTerminator(r, line_idx) ==
    LET from == line_to_char(r, line_idx)
        brk == {i \in from..(Len(r) - 1) : r[i + 1] \in RopeBreakChars}
    IN  IF brk = {} THEN len_chars(r)
        ELSE CHOOSE i \in brk : \A j \in brk : i <= j

\* C14: for every line in [0, len_lines()), line_to_last_char(line) is
\* line_to_char(line) + line_len_no_eol(line), and that is the offset of the
\* first terminator character of the line, or len_chars() for the last line:
\* never an offset behind the first terminator character.
C14_LastCharIsFirstTerminator ==
    (call.op = "line_to_last_char" /\ call.in_range) =>
        LET l == call.args[1]
        IN  /\ call.ok
            /\ call.val = line_to_char(rope, l) + line_len_no_eol(rope, l)
            /\ call.val = FirstTerminator(rope, l)
            /\ l = len_lines(rope) - 1 => call.val = len_chars(rope)

LineToCharThenCharToLine == call.op = "char_to_line" /\ call.from.valid

\* C15: in every Buffer reached by edits, for every line in [0, len_lines()),
\* char_to_line(line_to_char(line)) = line; line_to_char(0) = 0; and
\* line_to_char does not decrease as line grows.
C15_LineStartsRoundTrip ==
    /\ (LineToCharThenCharToLine /\ call.from.idx < len_lines(rope)) =>
            call.ok /\ call.val = call.from.idx
    /\ (call.op = "line_to_char" /\ call.args[1] = 0) =>
            call.ok /\ call.val = 0
    /\ \A l1, l2 \in 0..(len_lines(rope) - 1) :
            l1 <= l2 => line_to_char(rope, l1) <= line_to_char(rope, l2)

\* The start of the line after a CRLF break, in an edited Buffer, mapped back
\* to its line.
C15_Witness ==
    /\ LineToCharThenCharToLine
    /\ is_dirty
    /\ InsideCRLF(rope, 1)
    /\ call.from.idx = 1 /\ call.args[1] = 2
    /\ call.val = 1

----------------------------------------------------------------------------
(* Properties of draw *)

CaretRects(list) == Cardinality({i \in 1..Len(list) : list[i] = CaretRect})

InLoopCarets == {i \in 1..Len(drawn.steps) : drawn.steps[i].caret}

\* C3: one draw emits at most one caret Rect; the Rect after the loop is
\* emitted only when the caret is at len_chars() and no iteration of the loop
\* matched it; and with the caret at len_chars() and the loop run to the end
\* of the Buffer there is exactly one caret Rect, the last command of the
\* list.
C3_AtMostOneCaretRect ==
    drawn.done =>
        /\ CaretRects(display_list) <= 1
        /\ drawn.eof_caret => index = len_chars(rope) /\ InLoopCarets = {}
        /\ (index = len_chars(rope) /\ ~drawn.broke) =>
                /\ CaretRects(display_list) = 1
                /\ display_list[Len(display_list)] = CaretRect

\* C8: with a selection [start, end), a character drawn at idx gets a
\* selection-highlight Rect exactly when start <= idx < end and the
\* character is neither LF nor CR.
C8_HighlightIffSelectedNonTerminator ==
    drawn.done =>
        \A i \in 1..Len(drawn.steps) :
            LET st == drawn.steps[i]
            IN  st.selection <=>
                    /\ selection.some
                    /\ selection.start <= st.idx /\ st.idx < selection.end
                    /\ st.c \notin {LF, CR}

first_char == line_to_char(rope, first_visible_line)

\* The pen after the i-th character the loop took: the pen before the next
\* one.
PenAfter(i) ==
    IF i < Len(drawn.steps)
    THEN [x |-> drawn.steps[i + 1].x, y |-> drawn.steps[i + 1].y]
    ELSE [x |-> drawn.x, y |-> drawn.y]

\* The rules of the pen, character by character, up to the character at
\* which the loop ends.
PenFollowsCharacters ==
    /\ drawn.steps # <<>> =>
            /\ drawn.steps[1].x = 0 /\ drawn.steps[1].y = 0
            /\ drawn.steps[1].idx = first_char
    /\ \A i \in 1..Len(drawn.steps) :
            LET st == drawn.steps[i]
                broke == drawn.broke /\ i = Len(drawn.steps)
            IN  /\ st.c = rope[st.idx + 1]
                /\ st.glyph <=> st.c \notin {LF, TAB, CR}
                /\ (st.c = LF /\ ~broke) =>
                        /\ PenAfter(i).y = st.y + Font.line_spacing
                        /\ PenAfter(i).x = 0
                /\ st.c = TAB =>
                        /\ PenAfter(i).x = st.x + 4 * Font.advance
                        /\ PenAfter(i).y = st.y
                /\ st.c = CR => PenAfter(i).x = st.x /\ PenAfter(i).y = st.y
                /\ st.glyph =>
                        /\ PenAfter(i).x = st.x + Font.advance
                        /\ PenAfter(i).y = st.y
                        /\ \E j \in 2..Len(display_list) :
                               /\ display_list[j - 1] = Move(st.x, st.y)
                               /\ display_list[j] = Char(st.c, TextColor)
    /\ Cardinality({j \in 1..Len(display_list) :
                        display_list[j].cmd = "Char"})
           = Cardinality({i \in 1..Len(drawn.steps) : drawn.steps[i].glyph})

\* The glyph of the k-th character of a line without a tab, n lines below
\* the first visible line, is at (k * advance, n * line_spacing).
GlyphsAtLineAndColumn ==
    \A i \in 1..Len(drawn.steps) :
        LET st == drawn.steps[i]
            l == char_to_line(rope, st.idx)
            n == l - first_visible_line
            k == st.idx - line_to_char(rope, l)
        IN  (st.glyph /\ TAB \notin {rope[j] : j \in 1..Len(rope)}) =>
                st.x = k * Font.advance /\ st.y = n * Font.line_spacing

\* C12: the pen starts at (0, 0) at the first character of the first
\* visible line; LF adds the line spacing to y and sets x to 0, TAB adds 4
\* advances to x, CR changes nothing, none of the three draws a glyph; every
\* other character emits Move(x, y) and Char and adds one advance to x; so
\* the k-th character of a tab-free line n lines below the first visible
\* line has its glyph at (k * advance, n * line_spacing).
C12_GlyphPenPositions ==
    drawn.done => PenFollowsCharacters /\ GlyphsAtLineAndColumn

\* C13: draw changes the display list only: the Buffer's content and dirty
\* flag, the View's caret, selection and first visible line, and the
\* window's size, font height, Views, Buffers and current_view are after
\* draw what they were before it, in every state draw is called in.
C13_DrawWritesDisplayListOnly ==
    [][drawn'.done =>
          /\ rope' = rope /\ is_dirty' = is_dirty
          /\ index' = index /\ selection' = selection
          /\ first_visible_line' = first_visible_line
          /\ page_length' = page_length /\ anchor' = anchor
          /\ width' = width /\ height' = height
          /\ font_height' = font_height
          /\ views' = views /\ buffers' = buffers
          /\ current_view' = current_view]_vars

\* A draw of a scrolled View with a selection and the caret in it, that
\* filled the display list.
C13_Witness ==
    /\ drawn.done
    /\ first_visible_line > 0 /\ selection.some
    /\ index >= first_char
    /\ CaretRects(display_list) = 1
    /\ \E j \in 1..Len(display_list) : display_list[j].cmd = "Char"

\* C19: the loop ends at the first LF that takes y above the window height:
\* no Char and no Rect is emitted at a pen position with y above the height,
\* no character after that LF is taken, and wherever the running index is
\* compared with the caret, in the loop and after it, it is first_char plus
\* the number of characters taken so far.
C19_VerticalClip ==
    drawn.done =>
        /\ \A j \in 1..Len(display_list) :
                display_list[j].cmd = "Move" => display_list[j].y <= height
        /\ \A i \in 1..Len(drawn.steps) :
                /\ drawn.steps[i].idx = first_char + (i - 1)
                /\ (drawn.steps[i].c = LF
                        /\ drawn.steps[i].y + Font.line_spacing > height)
                    => i = Len(drawn.steps)
        /\ drawn.idx = first_char + Len(drawn.steps)

----------------------------------------------------------------------------
(* Properties of the main loop *)

FrameEnded == obs.last_frame.kind # "none"

\* C4 as stated: a frame renders (once) if and only if at least one event
\* was received in it; otherwise it sleeps.
C4_RendersIffEvent ==
    FrameEnded =>
        /\ obs.last_frame.kind = "render" <=> obs.last_frame.events > 0
        /\ obs.last_frame.kind = "sleep" <=> obs.last_frame.events = 0

\* C4, amended: a frame that runs to its end (no Escape or Quit in it)
\* renders, once, if and only if at least one event was received in it or it
\* is the first frame of the loop; otherwise it sleeps and does not render.
C4_RendersIffEventOrFirstFrame ==
    FrameEnded =>
        /\ obs.last_frame.kind = "render" <=>
                (obs.last_frame.events > 0 \/ obs.last_frame.first)
        /\ obs.last_frame.kind = "sleep" <=>
                (obs.last_frame.events = 0 /\ ~obs.last_frame.first)
        /\ obs.renders <= obs.handled + 1

\* A frame after the first, with two events, was drawn.
C4_Witness ==
    /\ obs.last_frame.kind = "render"
    /\ obs.last_frame.events = 2
    /\ ~obs.last_frame.first
    /\ obs.renders = 2
    /\ drawn.done

\* C5: once an Escape key-down or a Quit event has been handled, no further
\* event is handled, no command or View operation runs (the Buffer, the View
\* and the window stay as they are) and nothing is rendered.
C5_QuitIsTerminal ==
    [][obs.quit_seen =>
          /\ obs'.handled = obs.handled
          /\ obs'.renders = obs.renders
          /\ pending' = pending
          /\ UNCHANGED <<bufVars, viewVars, winVars, drawVars>>]_vars

\* Escape was handled while a further event was waiting in the pump.
C5_Witness ==
    /\ obs.quit_seen
    /\ obs.last_event = KeyDown("Escape", {})
    /\ pending # <<>>
    /\ pc = "done"

\* C7: after a resize to (w, h) the window's width and height are (w, h) and
\* the View's page length is h / line_spacing - 1, a count that is not
\* negative and has not wrapped around, also for h < line_spacing; the
\* first View gets its page length from the initial height the same way.
C7_PageLengthFromHeight ==
    (obs.last_event.type = "SizeChanged" \/ obs.handled = 0) =>
        /\ ~panicked
        /\ obs.last_event.type = "SizeChanged" =>
                width = obs.last_event.w /\ height = obs.last_event.h
        /\ page_length = (height \div font_height) - 1
        /\ page_length >= 0

\* The texts of the text-input events among `events`, concatenated.
RECURSIVE texts_of(_)
texts_of(events) ==
    IF events = <<>> THEN <<>>
    ELSE Head(events).text \o texts_of(Tail(events))

\* C16: the events are handled one by one in the order they arrived, a
\* frame is drawn only when every event received has been handled, never
\* between two events of a frame; so the characters inserted into the View
\* are the texts of the text-input events handled, in arrival order, each
\* text character by character in its own order.
C16_EventsInOrderThenRedraw ==
    /\ [](obs.typed = obs.inserted \o texts_of(pending))
    /\ [][/\ obs'.handled # obs.handled =>
                /\ pending # <<>>
                /\ obs'.handled = obs.handled + 1
                /\ obs'.last_event = Head(pending)
                /\ pending' = Tail(pending)
                /\ obs'.renders = obs.renders
                /\ obs'.inserted = obs.inserted \o Head(pending).text
          /\ obs'.renders # obs.renders =>
                /\ pending = <<>> /\ pending' = <<>>
                /\ obs.handled = obs.arrived
                /\ obs'.last_frame.events = obs.frame_events
                /\ obs'.inserted = obs.inserted]_vars

\* Two text-input events of one frame, the second of two characters, were
\* handled and the frame was drawn.
C16_Witness ==
    /\ obs.inserted = <<"a", "a", LF>>
    /\ obs.last_frame.kind = "render" /\ obs.last_frame.events = 2
    /\ pending = <<>>
    /\ drawn.done

\* C20: views and buffers have the same length, at least 1; current_view is
\* an index into views; and buffers[0], which draw reads, is the Buffer the
\* active View views[current_view] refers to.
C20_DrawReadsActiveViewsBuffer ==
    /\ Len(views) = Len(buffers)
    /\ Len(views) >= 1
    /\ current_view \in 0..(Len(views) - 1)
    /\ buffers[1] = views[current_view + 1].buffer

\* The window after an edit and a draw.
C20_Witness ==
    /\ drawn.done /\ is_dirty
    /\ obs.handled >= 1 /\ obs.renders >= 1
    /\ Len(views) = 1 /\ Len(buffers) = 1 /\ current_view = 0

ShiftKey(e) == e.key \in {"LShift", "RShift"}

\* The `run` calls among `calls`.
RunCalls(calls) == SelectSeq(calls, LAMBDA c : c.op = "run")

\* C17: for a key-down of a Shift key both handlers run on that one event:
\* the command bound to (the key, the normalized modifiers), if there is
\* one, is run on the active View, and then start_selection is called on
\* it; for a key-up of a Shift key end_selection is called.
C17_ShiftRunsBothHandlers ==
    LET e == obs.last_event
        kb == <<e.key, normalize(e.keymod)>>
        ran == IF kb \in DOMAIN cmd_keybinding
               THEN <<ViewCall("run", cmd_keybinding[kb], "")>>
               ELSE <<>>
    IN  /\ (e.type = "KeyDown" /\ ShiftKey(e)) =>
                /\ obs.last_calls
                        = ran \o <<ViewCall("start_selection", 0, "")>>
                /\ anchor # NoAnchor
        /\ (e.type = "KeyUp" /\ ShiftKey(e)) =>
                /\ obs.last_calls = <<ViewCall("end_selection", 0, "")>>
                /\ anchor = NoAnchor

\* A key-down of the bound Shift key moved the caret and then set the anchor.
C17_Witness ==
    /\ obs.last_event = KeyDown("RShift", {"RSHIFTMOD", "NUMMOD"})
    /\ obs.last_calls
           = <<ViewCall("run", 1, ""), ViewCall("start_selection", 0, "")>>
    /\ index = 1 /\ anchor = 1

\* The flags of the left and the right key of each modifier.
ModFlags(md) ==
    CASE md = CTRL -> {"LCTRLMOD", "RCTRLMOD"}
      [] md = ALT -> {"LALTMOD", "RALTMOD"}
      [] md = SHIFT -> {"LSHIFTMOD", "RSHIFTMOD"}

\* Which of ctrl, alt and shift are held, by either of the two keys.
Held(keymod) == {md \in {CTRL, ALT, SHIFT} : keymod \cap ModFlags(md) # {}}

\* C18: what a key-down dispatches depends only on the key code and on
\* which of ctrl, alt and shift are held: the key-down about to be handled
\* does to the window what every key-down of the same key code does whose
\* flags have the same modifiers held, by the left or the right key and
\* with or without other flags; and the command run for the key-down
\* handled last is the one bound to (key code, held modifiers), none if
\* there is no such binding.
C18_DispatchByKeyAndHeldModifiers ==
    /\ (pending # <<>> /\ Head(pending).type = "KeyDown") =>
            LET e == Head(pending)
            IN  \A keymod \in SUBSET KeyMods :
                    Held(keymod) = Held(e.keymod) =>
                        dispatch_key(world, KeyDown(e.key, keymod))
                            = dispatch_key(world, e)
    /\ obs.last_event.type = "KeyDown" =>
            LET kb == <<obs.last_event.key, Held(obs.last_event.keymod)>>
            IN  RunCalls(obs.last_calls) =
                    IF kb \in DOMAIN cmd_keybinding
                    THEN <<ViewCall("run", cmd_keybinding[kb], "")>>
                    ELSE <<>>

\* Right was pressed with the right Shift key held and Num Lock on: the
\* command bound to Shift+Right ran.
C18_Witness ==
    /\ obs.last_event = KeyDown("Right", {"RSHIFTMOD", "NUMMOD"})
    /\ obs.last_calls = <<ViewCall("run", 1, "")>>
    /\ index = 1

====
